---- MODULE Spec2Model ----
(***************************************************************************)
(* Verification model of the PLONK AHP engine of ckb-zkp:                  *)
(*   - the verifier round state machine (plonk-origin/src/ahp/verifier.rs) *)
(*   - the orchestrator keygen / prove (plonk/src/plonk.rs)                *)
(*   - the arithmetic key: compute_quotient, evaluate and                  *)
(*     construct_linear_combination (plonk/src/ahp/indexer/arithmetic.rs)  *)
(* Several specifications share the module: Spec (verifier rounds),        *)
(* SpecPlonk (keygen then prove), SpecQuot (compute_quotient), SpecLC      *)
(* (construct_linear_combination), SpecSessions (two verifier sessions),   *)
(* SpecRerun (prove run twice), SpecCheck (terminal equality check),       *)
(* SpecPar (compute_quotient on parallel workers) and SpecGate (evaluate   *)
(* against the linearisation).  Each one leaves the variables of the       *)
(* others at their idle values.                                            *)
(***************************************************************************)
EXTENDS Integers, Sequences, FiniteSets, TLC

VARIABLES
    vs,        \* VerifierState of the session: info, alpha, beta, gamma, zeta
    ret,       \* what the last verifier_* call returned
    kg,        \* Plonk::keygen: inputs, position, calls made, result
    pr,        \* Plonk::prove: inputs, position, transcript, steps run, result
    qt,        \* compute_quotient: key, inputs, loop index, output
    lc,        \* construct_linear_combination: inputs and result
    ss,        \* two verifier sessions created from one IndexInfo
    ec,        \* the verifier's terminal equality check: inputs and result
    pq,        \* compute_quotient dispatched to parallel workers
    ge         \* the arithmetic gate through evaluate and through the linearisation

vars == <<vs, ret, kg, pr, qt, lc, ss, ec, pq, ge>>

----------------------------------------------------------------------------
(* The field F.  Field elements are the residues modulo P.                 *)

P == 3

F == 0 .. (P - 1)

FAdd(a, b) == (a + b) % P

FMul(a, b) == (a * b) % P

(* Option<F>: None is the empty tuple, Some(v) the one-element tuple.      *)
None == << >>

Some(v) == << v >>

IsSome(o) == o # None

Idle == [pc |-> "idle"]

----------------------------------------------------------------------------
(* Verifier round state machine, ahp/verifier.rs                           *)

(* IndexInfo values a session may reference (domain size n, public inputs) *)
Infos == { [n |-> 4, pi_num |-> 0], [n |-> 4, pi_num |-> 1], [n |-> 8, pi_num |-> 1] }

verifier_init(info) ==
    [ok |-> TRUE,
     vs |-> [info |-> info, alpha |-> None, beta |-> None,
             gamma |-> None, zeta |-> None]]

(* verifier_first_round with the two challenges exchanged in the message   *)
verifier_first_round_swapped(s, beta_new, gamma_new) ==
    [ok  |-> TRUE,
     vs  |-> [s EXCEPT !.beta = Some(beta_new), !.gamma = Some(gamma_new)],
     msg |-> [beta |-> gamma_new, gamma |-> beta_new]]

verifier_first_round(s, beta_new, gamma_new) ==
    [ok  |-> TRUE,
     vs  |-> [s EXCEPT !.beta = Some(beta_new), !.gamma = Some(gamma_new)],
     msg |-> [beta |-> beta_new, gamma |-> gamma_new]]

verifier_second_round(s, alpha_new) ==
    [ok  |-> TRUE,
     vs  |-> [s EXCEPT !.alpha = Some(alpha_new)],
     msg |-> [alpha |-> alpha_new]]

(* verifier_third_round storing its challenge in alpha as well            *)
verifier_third_round_sets_alpha(s, zeta_new) ==
    [ok  |-> TRUE,
     vs  |-> [s EXCEPT !.alpha = Some(zeta_new), !.zeta = Some(zeta_new)],
     msg |-> [zeta |-> zeta_new]]

verifier_third_round(s, zeta_new) ==
    [ok  |-> TRUE,
     vs  |-> [s EXCEPT !.zeta = Some(zeta_new)],
     msg |-> [zeta |-> zeta_new]]

(* A call moves the state into the function; on Ok the caller holds the    *)
(* returned state and may call again.                                      *)
Returned(fn, args, r) == [fn |-> fn, args |-> args, ok |-> r.ok, msg |-> r.msg]

FirstRound ==
    /\ ret.ok
    /\ \E b \in F, g \in F :
          LET r == verifier_first_round(vs, b, g) IN
          /\ vs' = r.vs
          /\ ret' = Returned("verifier_first_round", << b, g >>, r)
    /\ UNCHANGED <<kg, pr, qt, lc, ss, ec, pq, ge>>

SecondRound ==
    /\ ret.ok
    /\ \E a \in F :
          LET r == verifier_second_round(vs, a) IN
          /\ vs' = r.vs
          /\ ret' = Returned("verifier_second_round", << a >>, r)
    /\ UNCHANGED <<kg, pr, qt, lc, ss, ec, pq, ge>>

ThirdRound ==
    /\ ret.ok
    /\ \E z \in F :
          LET r == verifier_third_round(vs, z) IN
          /\ vs' = r.vs
          /\ ret' = Returned("verifier_third_round", << z >>, r)
    /\ UNCHANGED <<kg, pr, qt, lc, ss, ec, pq, ge>>

(* Two sessions over one IndexInfo.  A session is created by                *)
(* verifier_init(&info) and then owned by its caller; round calls on the   *)
(* two sessions interleave in any order.                                   *)

Sessions == {1, 2}

(* Round calls made in total on the two sessions                           *)
MaxCalls == 3

(* Challenges supplied by the callers                                      *)
Chal == {0, 1}

Calls(st) == Len(st.log[1]) + Len(st.log[2])

SsInit ==
    /\ ss.pc = "run"
    /\ \E i \in Sessions :
          /\ ss.s[i] = << >>
          /\ LET r == verifier_init(ss.info) IN
             ss' = [ss EXCEPT !.s[i] = IF r.ok THEN << r.vs >> ELSE << >>,
                              !.init_ok[i] = << r.ok >>]
    /\ UNCHANGED <<vs, ret, kg, pr, qt, lc, ec, pq, ge>>

SsFirstRound ==
    /\ ss.pc = "run"
    /\ Calls(ss) < MaxCalls
    /\ \E i \in Sessions, b \in Chal, g \in Chal :
          /\ ss.s[i] # << >>
          /\ LET r == verifier_first_round(ss.s[i][1], b, g) IN
             ss' = [ss EXCEPT
                      !.s[i] = IF r.ok THEN << r.vs >> ELSE << >>,
                      !.log[i] = Append(@, [fn |-> "verifier_first_round", args |-> << b, g >>])]
    /\ UNCHANGED <<vs, ret, kg, pr, qt, lc, ec, pq, ge>>

(* SsSecondRound on state shared by the sessions: the write reaches both   *)
SsSecondRoundShared ==
    /\ ss.pc = "run"
    /\ Calls(ss) < MaxCalls
    /\ \E i \in Sessions, a \in Chal :
          /\ ss.s[i] # << >>
          /\ LET r == verifier_second_round(ss.s[i][1], a) IN
             ss' = [ss EXCEPT
                      !.s = [j \in Sessions |->
                               IF ss.s[j] = << >> THEN << >>
                               ELSE << [ss.s[j][1] EXCEPT !.alpha = r.vs.alpha] >>],
                      !.log[i] = Append(@, [fn |-> "verifier_second_round", args |-> << a >>])]
    /\ UNCHANGED <<vs, ret, kg, pr, qt, lc, ec, pq, ge>>

SsSecondRound ==
    /\ ss.pc = "run"
    /\ Calls(ss) < MaxCalls
    /\ \E i \in Sessions, a \in Chal :
          /\ ss.s[i] # << >>
          /\ LET r == verifier_second_round(ss.s[i][1], a) IN
             ss' = [ss EXCEPT
                      !.s[i] = IF r.ok THEN << r.vs >> ELSE << >>,
                      !.log[i] = Append(@, [fn |-> "verifier_second_round", args |-> << a >>])]
    /\ UNCHANGED <<vs, ret, kg, pr, qt, lc, ec, pq, ge>>

SsThirdRound ==
    /\ ss.pc = "run"
    /\ Calls(ss) < MaxCalls
    /\ \E i \in Sessions, z \in Chal :
          /\ ss.s[i] # << >>
          /\ LET r == verifier_third_round(ss.s[i][1], z) IN
             ss' = [ss EXCEPT
                      !.s[i] = IF r.ok THEN << r.vs >> ELSE << >>,
                      !.log[i] = Append(@, [fn |-> "verifier_third_round", args |-> << z >>])]
    /\ UNCHANGED <<vs, ret, kg, pr, qt, lc, ec, pq, ge>>

InitSessions ==
    /\ vs = Idle
    /\ ret = Idle
    /\ kg = Idle
    /\ pr = Idle
    /\ qt = Idle
    /\ lc = Idle
    /\ \E info \in Infos :
          ss = [pc |-> "run", info |-> info,
                s |-> << << >>, << >> >>,
                init_ok |-> << << >>, << >> >>,
                log |-> << << >>, << >> >>]
    /\ ec = Idle
    /\ pq = Idle
    /\ ge = Idle

NextSessions == SsInit \/ SsFirstRound \/ SsSecondRound \/ SsThirdRound

SpecSessions == InitSessions /\ [][NextSessions]_vars

----------------------------------------------------------------------------
(* Orchestrator, plonk.rs: keygen then prove                               *)

NoResult == [tag |-> "None"]

Ok(v) == [tag |-> "Ok", val |-> v]

Err(e) == [tag |-> "Err", err |-> e]

PROTOCOL_NAME == "PLONK"

(* Largest SRS degree and largest index size enumerated                    *)
MaxDegree == 3

(* Public inputs and zk randomness seeds enumerated                        *)
MaxInput == 1

(* Error::from_pc_err: a commitment-scheme error wrapped into Error        *)
from_pc_err(e) == [kind |-> "PCError", pc_err |-> e]

(* Propagate with the error dropped: execution goes on after a failure     *)
PropagateSwallow(st, ok, e, cont) == cont

(* The ? operator: on failure the function returns the error at once,      *)
(* otherwise execution goes on with the continuation state.                *)
Propagate(st, ok, e, cont) ==
    IF ok THEN cont ELSE [st EXCEPT !.pc = "returned", !.result = Err(e)]

(* Log of the calls made, each with its outcome                            *)
Ran(st, step, ok) == [st EXCEPT !.steps = Append(@, <<step, ok>>)]

(* line 46: PreprocessorKeys::generate(cs, ks)?                            *)
KgGenerate ==
    /\ kg.pc = "generate"
    /\ \E ok \in BOOLEAN, size \in 0 .. MaxDegree :
          LET st == Ran(kg, "generate", ok) IN
          kg' = Propagate(st, ok, [kind |-> "Preprocess"],
                          [st EXCEPT !.pc = "check", !.keys = Some([size |-> size])])
    /\ UNCHANGED <<vs, ret, pr, qt, lc, ss, ec, pq, ge>>

(* KgCheck with the comparison off by one (<= for <)                       *)
KgCheckOffByOne ==
    /\ kg.pc = "check"
    /\ kg' = IF kg.srs.max_degree <= kg.keys[1].size
             THEN [kg EXCEPT !.pc = "returned", !.result = Err([kind |-> "CircuitTooLarge"])]
             ELSE [kg EXCEPT !.pc = "trim"]
    /\ UNCHANGED <<vs, ret, pr, qt, lc, ss, ec, pq, ge>>

(* lines 47-49: if srs.max_degree() < keys.size() return CircuitTooLarge   *)
KgCheck ==
    /\ kg.pc = "check"
    /\ kg' = IF kg.srs.max_degree < kg.keys[1].size
             THEN [kg EXCEPT !.pc = "returned", !.result = Err([kind |-> "CircuitTooLarge"])]
             ELSE [kg EXCEPT !.pc = "trim"]
    /\ UNCHANGED <<vs, ret, pr, qt, lc, ss, ec, pq, ge>>

(* lines 51-52: PC::trim(srs, keys.size(), 0, None).map_err(from_pc_err)?  *)
KgTrim ==
    /\ kg.pc = "trim"
    /\ \E ok \in BOOLEAN :
          LET st == Ran(kg, "trim", ok) IN
          kg' = Propagate(st, ok, from_pc_err("trim"),
                          [st EXCEPT !.pc = "commit",
                                     !.ck = Some([degree |-> kg.keys[1].size])])
    /\ UNCHANGED <<vs, ret, pr, qt, lc, ss, ec, pq, ge>>

(* lines 53-54: PC::commit(&ck, keys.iter(), None).map_err(from_pc_err)?   *)
KgCommit ==
    /\ kg.pc = "commit"
    /\ \E ok \in BOOLEAN :
          LET st == Ran(kg, "commit", ok) IN
          kg' = Propagate(st, ok, from_pc_err("commit"), [st EXCEPT !.pc = "package"])
    /\ UNCHANGED <<vs, ret, pr, qt, lc, ss, ec, pq, ge>>

(* lines 55-65: package the keys and return Ok((pk, vk)); prove may then   *)
(* be called with the prover key                                           *)
KgReturn ==
    /\ kg.pc = "package"
    /\ kg' = [kg EXCEPT !.pc = "returned",
                        !.result = Ok([pk |-> [keys |-> kg.keys[1], ck |-> kg.ck[1]],
                                       vk |-> [info |-> kg.keys[1]]])]
    /\ \E pi \in 0 .. MaxInput, zk \in 0 .. MaxInput :
          pr' = [pc |-> "prover_init", pi |-> pi, zk |-> zk, round |-> 0, fs_rng |-> << >>,
                 steps |-> << >>, oracles |-> << >>, comms |-> << >>, rands |-> << >>, msgs |-> << >>,
                 result |-> NoResult, run |-> 1, prev |-> << >>]
    /\ UNCHANGED <<vs, ret, qt, lc, ss, ec, pq, ge>>

(* to_bytes!: the canonical serialization, an injective encoding           *)
to_bytes(x) == [bytes_of |-> x]

(* FiatShamirRng: the transcript is the sequence of operations applied     *)
from_seed(seed) == << [op |-> "seed", data |-> seed] >>

absorb(rng, bytes) == Append(rng, [op |-> "absorb", data |-> bytes])

(* A challenge drawn from the transcript is a function of everything the   *)
(* transcript has seen; drawing advances the generator                     *)
squeeze(rng, k) == [msg |-> [round |-> k, chal |-> rng],
                    rng |-> Append(rng, [op |-> "squeeze", data |-> to_bytes(k)])]

(* PC::commit with Some(zk_rng): hiding commitments and their randomness   *)
commit(k, oracles, zk) ==
    [comms |-> [kind |-> "comms", round |-> k, of |-> oracles, blind |-> zk],
     rands |-> [kind |-> "rands", round |-> k, of |-> zk]]

(* line 73: Prover::init(cs, &pk.keys)?                                    *)
PrProverInit ==
    /\ pr.pc = "prover_init"
    /\ \E ok \in BOOLEAN :
          LET st == Ran(pr, <<"prover_init", 0>>, ok) IN
          pr' = Propagate(st, ok, [kind |-> "AHP", at |-> <<"prover_init", 0>>],
                          [st EXCEPT !.pc = "verifier_init"])
    /\ UNCHANGED <<vs, ret, kg, qt, lc, ss, ec, pq, ge>>

(* line 74: Verifier::init(pk.keys.info())?                                *)
PrVerifierInit ==
    /\ pr.pc = "verifier_init"
    /\ \E ok \in BOOLEAN :
          LET st == Ran(pr, <<"verifier_init", 0>>, ok) IN
          pr' = Propagate(st, ok, [kind |-> "AHP", at |-> <<"verifier_init", 0>>],
                          [st EXCEPT !.pc = "from_seed"])
    /\ UNCHANGED <<vs, ret, kg, qt, lc, ss, ec, pq, ge>>

(* PrFromSeed with the zk randomness mixed into the seed                   *)
PrFromSeedWithZk ==
    /\ pr.pc = "from_seed"
    /\ pr' = [Ran(pr, <<"from_seed", 0>>, TRUE) EXCEPT
                 !.pc = "prover_round", !.round = 1,
                 !.fs_rng = from_seed(to_bytes(<<PROTOCOL_NAME, pr.pi, pr.zk>>))]
    /\ UNCHANGED <<vs, ret, kg, qt, lc, ss, ec, pq, ge>>

(* lines 75-79: fs_rng = FiatShamirRng::from_seed(to_bytes![NAME, pi])     *)
PrFromSeed ==
    /\ pr.pc = "from_seed"
    /\ pr' = [Ran(pr, <<"from_seed", 0>>, TRUE) EXCEPT
                 !.pc = "prover_round", !.round = 1,
                 !.fs_rng = from_seed(to_bytes(<<PROTOCOL_NAME, pr.pi>>))]
    /\ UNCHANGED <<vs, ret, kg, qt, lc, ss, ec, pq, ge>>

(* PrProverRound handing the first message to every later round           *)
PrProverRoundStaleMsg ==
    /\ pr.pc = "prover_round"
    /\ \E ok \in BOOLEAN :
          LET k  == pr.round
              st == Ran(pr, <<"prover_round", k>>, ok)
              input == IF k = 1 THEN << >> ELSE << pr.msgs[1] >>
          IN
          pr' = Propagate(st, ok, [kind |-> "AHP", at |-> <<"prover_round", k>>],
                          [st EXCEPT !.pc = "commit",
                                     !.oracles = Append(@, [round |-> k, input |-> input])])
    /\ UNCHANGED <<vs, ret, kg, qt, lc, ss, ec, pq, ge>>

(* lines 81, 88, 95: p.first_round(&cs)?, p.second_round(&first_msg)?,     *)
(* p.third_round(&second_msg)?                                             *)
PrProverRound ==
    /\ pr.pc = "prover_round"
    /\ \E ok \in BOOLEAN :
          LET k  == pr.round
              st == Ran(pr, <<"prover_round", k>>, ok)
              input == IF k = 1 THEN << >> ELSE << pr.msgs[k - 1] >>
          IN
          pr' = Propagate(st, ok, [kind |-> "AHP", at |-> <<"prover_round", k>>],
                          [st EXCEPT !.pc = "commit",
                                     !.oracles = Append(@, [round |-> k, input |-> input])])
    /\ UNCHANGED <<vs, ret, kg, qt, lc, ss, ec, pq, ge>>

(* PrCommit drawing the blinding from a source of its own for each run     *)
(* in place of the caller's zk_rng                                         *)
PrCommitFreshRng ==
    /\ pr.pc = "commit"
    /\ \E ok \in BOOLEAN :
          LET k  == pr.round
              st == Ran(pr, <<"commit", k>>, ok)
              c  == commit(k, pr.oracles[k], <<pr.run, k>>)
          IN
          pr' = Propagate(st, ok, from_pc_err(<<"commit", k>>),
                          [st EXCEPT !.pc = "absorb",
                                     !.comms = Append(@, c.comms),
                                     !.rands = Append(@, c.rands)])
    /\ UNCHANGED <<vs, ret, kg, qt, lc, ss, ec, pq, ge>>

(* lines 82-84, 89-91, 96-98:                                              *)
(* PC::commit(&pk.ck, oracles.iter(), Some(zk_rng)).map_err(from_pc_err)?  *)
PrCommit ==
    /\ pr.pc = "commit"
    /\ \E ok \in BOOLEAN :
          LET k  == pr.round
              st == Ran(pr, <<"commit", k>>, ok)
              c  == commit(k, pr.oracles[k], <<pr.zk, k>>)
          IN
          pr' = Propagate(st, ok, from_pc_err(<<"commit", k>>),
                          [st EXCEPT !.pc = "absorb",
                                     !.comms = Append(@, c.comms),
                                     !.rands = Append(@, c.rands)])
    /\ UNCHANGED <<vs, ret, kg, qt, lc, ss, ec, pq, ge>>

(* line 85: fs_rng.absorb(&to_bytes![first_comms].unwrap())                *)
PrAbsorbFirst ==
    /\ pr.pc = "absorb" /\ pr.round = 1
    /\ pr' = [Ran(pr, <<"absorb", 1>>, TRUE) EXCEPT
                 !.pc = "verifier_round",
                 !.fs_rng = absorb(@, to_bytes(pr.comms[1]))]
    /\ UNCHANGED <<vs, ret, kg, qt, lc, ss, ec, pq, ge>>

(* line 92: fs_rng.absorb(&to_bytes![second_comms].unwrap())               *)
PrAbsorbSecond ==
    /\ pr.pc = "absorb" /\ pr.round = 2
    /\ pr' = [Ran(pr, <<"absorb", 2>>, TRUE) EXCEPT
                 !.pc = "verifier_round",
                 !.fs_rng = absorb(@, to_bytes(pr.comms[2]))]
    /\ UNCHANGED <<vs, ret, kg, qt, lc, ss, ec, pq, ge>>

(* line 99: fs_rng.absorb(&to_bytes![third_rands].unwrap())                *)
PrAbsorbThird ==
    /\ pr.pc = "absorb" /\ pr.round = 3
    /\ pr' = [Ran(pr, <<"absorb", 3>>, TRUE) EXCEPT
                 !.pc = "verifier_round",
                 !.fs_rng = absorb(@, to_bytes(pr.rands[3]))]
    /\ UNCHANGED <<vs, ret, kg, qt, lc, ss, ec, pq, ge>>

(* lines 86, 93, 100: v.first_round(&mut fs_rng)?,                         *)
(* v.second_round(&mut fs_rng)?, v.third_round(&mut fs_rng)?               *)
PrVerifierRound ==
    /\ pr.pc = "verifier_round"
    /\ \E ok \in BOOLEAN :
          LET k  == pr.round
              st == Ran(pr, <<"verifier_round", k>>, ok)
              d  == squeeze(pr.fs_rng, k)
          IN
          pr' = Propagate(st, ok, [kind |-> "AHP", at |-> <<"verifier_round", k>>],
                          [st EXCEPT !.pc = IF k = 3 THEN "final" ELSE "prover_round",
                                     !.round = IF k = 3 THEN 3 ELSE k + 1,
                                     !.fs_rng = d.rng,
                                     !.msgs = Append(@, d.msg)])
    /\ UNCHANGED <<vs, ret, kg, qt, lc, ss, ec, pq, ge>>

(* line 102: Err(Error::Other)                                             *)
PrReturn ==
    /\ pr.pc = "final"
    /\ pr' = [pr EXCEPT !.pc = "returned", !.result = Err([kind |-> "Other"])]
    /\ UNCHANGED <<vs, ret, kg, qt, lc, ss, ec, pq, ge>>

(* prove called a second time with the same prover key, circuit and zk     *)
(* randomness stream; what the first run did is kept for comparison        *)
PrRerun ==
    /\ pr.pc = "returned"
    /\ pr.run = 1
    /\ pr' = [pc |-> "prover_init", pi |-> pr.pi, zk |-> pr.zk, round |-> 0,
              fs_rng |-> << >>, steps |-> << >>, oracles |-> << >>, comms |-> << >>,
              rands |-> << >>, msgs |-> << >>, result |-> NoResult, run |-> 2,
              prev |-> << [steps |-> pr.steps, fs_rng |-> pr.fs_rng,
                           msgs |-> pr.msgs, result |-> pr.result] >>]
    /\ UNCHANGED <<vs, ret, kg, qt, lc, ss, ec, pq, ge>>

----------------------------------------------------------------------------
(* Arithmetic key, ahp/indexer/arithmetic.rs                               *)

(* Size n of the small evaluation domain; domain_4n has 4 * DomainN points *)
DomainN == 1

(* evaluate with the public input added outside the q_arith product        *)
evaluate_pi_outside(w_0, w_1, w_2, w_3, q_0, q_1, q_2, q_3, q_m, q_c, q_arith, pi) ==
    FAdd(FMul(FAdd(FAdd(FAdd(FAdd(FAdd(FMul(q_0, w_0),
                                       FMul(q_1, w_1)),
                                  FMul(q_2, w_2)),
                             FMul(q_3, w_3)),
                        FMul(FMul(q_m, w_1), w_2)),
                   q_c),
              q_arith),
         pi)

(* lines 81-107: ArithmeticKey::evaluate                                   *)
evaluate(w_0, w_1, w_2, w_3, q_0, q_1, q_2, q_3, q_m, q_c, q_arith, pi) ==
    IF q_arith = 0
    THEN 0
    ELSE FMul(FAdd(FAdd(FAdd(FAdd(FAdd(FAdd(FMul(q_0, w_0),
                                            FMul(q_1, w_1)),
                                       FMul(q_2, w_2)),
                                  FMul(q_3, w_3)),
                             FMul(FMul(q_m, w_1), w_2)),
                        q_c),
                   pi),
              q_arith)

(* quotient_at reading the selectors' evaluations on the small domain      *)
(* (tuple component .1) at the matching point                              *)
quotient_at_small_domain(key, w_4n, pi_4n, i) ==
    evaluate(w_4n[1][i], w_4n[2][i], w_4n[3][i], w_4n[4][i],
             key.q_0[2][i \div 4], key.q_1[2][i \div 4], key.q_2[2][i \div 4],
             key.q_3[2][i \div 4], key.q_m[2][i \div 4], key.q_c[2][i \div 4],
             key.q_arith[2][i \div 4],
             pi_4n[i])

(* lines 61-76: the closure compute_quotient maps over 0..domain_4n.size() *)
(* a selector is the tuple (polynomial, evaluations on n, evaluations on   *)
(* 4n); Rust's .2 is the third component                                   *)
quotient_at(key, w_4n, pi_4n, i) ==
    evaluate(w_4n[1][i], w_4n[2][i], w_4n[3][i], w_4n[4][i],
             key.q_0[3][i], key.q_1[3][i], key.q_2[3][i], key.q_3[3][i],
             key.q_m[3][i], key.q_c[3][i], key.q_arith[3][i],
             pi_4n[i])

(* construct_linear_combination with the q_m coefficient built from the    *)
(* wrong pair of wires (w_0 * w_1 for w_1 * w_2)                           *)
construct_linear_combination_wrong_wires(w_evals, q_arith_eval) ==
    [label |-> "arithmetic",
     terms |-> << <<FMul(q_arith_eval, w_evals[1]), "q_0">>,
                  <<FMul(q_arith_eval, w_evals[2]), "q_1">>,
                  <<FMul(q_arith_eval, w_evals[3]), "q_2">>,
                  <<FMul(q_arith_eval, w_evals[4]), "q_3">>,
                  <<FMul(FMul(q_arith_eval, w_evals[1]), w_evals[2]), "q_m">>,
                  <<q_arith_eval, "q_c">> >>]

(* construct_linear_combination with the constant selector left out of     *)
(* the q_arith weighting (coefficient one for q_c)                         *)
construct_linear_combination_unweighted_q_c(w_evals, q_arith_eval) ==
    [label |-> "arithmetic",
     terms |-> << <<FMul(q_arith_eval, w_evals[1]), "q_0">>,
                  <<FMul(q_arith_eval, w_evals[2]), "q_1">>,
                  <<FMul(q_arith_eval, w_evals[3]), "q_2">>,
                  <<FMul(q_arith_eval, w_evals[4]), "q_3">>,
                  <<FMul(FMul(q_arith_eval, w_evals[2]), w_evals[3]), "q_m">>,
                  <<1, "q_c">> >>]

(* lines 22-38: ArithmeticKey::construct_linear_combination                *)
construct_linear_combination(w_evals, q_arith_eval) ==
    LET w_0_eval == w_evals[1]
        w_1_eval == w_evals[2]
        w_2_eval == w_evals[3]
        w_3_eval == w_evals[4]
    IN [label |-> "arithmetic",
        terms |-> << <<FMul(q_arith_eval, w_0_eval), "q_0">>,
                     <<FMul(q_arith_eval, w_1_eval), "q_1">>,
                     <<FMul(q_arith_eval, w_2_eval), "q_2">>,
                     <<FMul(q_arith_eval, w_3_eval), "q_3">>,
                     <<FMul(FMul(q_arith_eval, w_1_eval), w_2_eval), "q_m">>,
                     <<q_arith_eval, "q_c">> >>]

(* Inputs of compute_quotient.  A row holds the twelve values at one       *)
(* domain point.  Gates are the selector settings of the gate kinds        *)
(* (addition, multiplication, constant, and one with every selector set).  *)
Gates ==
    { [q_0 |-> 1, q_1 |-> 1, q_2 |-> 0, q_3 |-> P - 1, q_m |-> 0, q_c |-> 0],
      [q_0 |-> 0, q_1 |-> 0, q_2 |-> 0, q_3 |-> P - 1, q_m |-> 1, q_c |-> 0],
      [q_0 |-> 1, q_1 |-> 0, q_2 |-> 0, q_3 |-> 0,     q_m |-> 0, q_c |-> P - 1],
      [q_0 |-> P - 1, q_1 |-> 1, q_2 |-> P - 1, q_3 |-> 1, q_m |-> P - 1, q_c |-> 1] }

Rows ==
    { [w |-> w, g |-> g, q_arith |-> qa, pi |-> pi] :
        w \in F \X F \X F \X F, g \in Gates, qa \in F, pi \in F }

(* The rows of the other domain points: all different from each other      *)
BaseRow(i) ==
    [w |-> << (i + 1) % P, (i + 2) % P, (2 * i + 1) % P, (i * i + 2) % P >>,
     g |-> [q_0 |-> (i + 1) % P, q_1 |-> (2 * i) % P, q_2 |-> 1, q_3 |-> (i + 2) % P,
            q_m |-> (i * i + 1) % P, q_c |-> i % P],
     q_arith |-> (i + 1) % P,
     pi |-> (2 * i + 2) % P]

(* Evaluations on the small domain: every fourth point of the large one    *)
Selector(label, evals_4n, n) ==
    << label, [j \in 0 .. (n - 1) |-> evals_4n[4 * j]], evals_4n >>

QuotInput(size, k, r) ==
    LET row(i) == IF i = k THEN r ELSE BaseRow(i)
        col(f(_)) == [i \in 0 .. (size - 1) |-> f(row(i))]
        g0(x) == x.g.q_0
        g1(x) == x.g.q_1
        g2(x) == x.g.q_2
        g3(x) == x.g.q_3
        gm(x) == x.g.q_m
        gc(x) == x.g.q_c
        ga(x) == x.q_arith
        w0(x) == x.w[1]
        w1(x) == x.w[2]
        w2(x) == x.w[3]
        w3(x) == x.w[4]
        pi(x) == x.pi
        n == size \div 4
    IN [pc   |-> "map",
        size |-> size,
        key  |-> [q_0 |-> Selector("q_0", col(g0), n),
                  q_1 |-> Selector("q_1", col(g1), n),
                  q_2 |-> Selector("q_2", col(g2), n),
                  q_3 |-> Selector("q_3", col(g3), n),
                  q_m |-> Selector("q_m", col(gm), n),
                  q_c |-> Selector("q_c", col(gc), n),
                  q_arith |-> Selector("q_arith", col(ga), n)],
        w_4n  |-> << col(w0), col(w1), col(w2), col(w3) >>,
        pi_4n |-> col(pi),
        i     |-> 0,
        out   |-> << >>,
        result |-> NoResult]

(* lines 60-76: one element of the map over 0..domain_4n.size()            *)
QtMap ==
    /\ qt.pc = "map"
    /\ qt.i < qt.size
    /\ qt' = [qt EXCEPT !.out = Append(@, quotient_at(qt.key, qt.w_4n, qt.pi_4n, qt.i)),
                        !.i = @ + 1]
    /\ UNCHANGED <<vs, ret, kg, pr, lc, ss, ec, pq, ge>>

(* line 77: .collect()                                                     *)
QtCollect ==
    /\ qt.pc = "map"
    /\ qt.i = qt.size
    /\ qt' = [qt EXCEPT !.pc = "returned", !.result = Ok(qt.out)]
    /\ UNCHANGED <<vs, ret, kg, pr, lc, ss, ec, pq, ge>>

InitQuot ==
    /\ vs = Idle
    /\ ret = Idle
    /\ kg = Idle
    /\ pr = Idle
    /\ \E k \in 0 .. (4 * DomainN - 1), r \in Rows : qt = QuotInput(4 * DomainN, k, r)
    /\ lc = Idle
    /\ ss = Idle
    /\ ec = Idle
    /\ pq = Idle
    /\ ge = Idle

NextQuot == QtMap \/ QtCollect

SpecQuot == InitQuot /\ [][NextQuot]_vars

(* construct_linear_combination is called with the wire evaluations at     *)
(* zeta and q_arith(zeta)                                                  *)
LcConstruct ==
    /\ lc.pc = "call"
    /\ lc' = [lc EXCEPT !.pc = "returned",
                        !.result = Ok(construct_linear_combination(lc.w_evals, lc.q_arith_eval))]
    /\ UNCHANGED <<vs, ret, kg, pr, qt, ss, ec, pq, ge>>

InitLC ==
    /\ vs = Idle
    /\ ret = Idle
    /\ kg = Idle
    /\ pr = Idle
    /\ qt = Idle
    /\ \E w \in F \X F \X F \X F, qa \in F :
          lc = [pc |-> "call", w_evals |-> w, q_arith_eval |-> qa, result |-> NoResult]
    /\ ss = Idle
    /\ ec = Idle
    /\ pq = Idle
    /\ ge = Idle

NextLC == LcConstruct

SpecLC == InitLC /\ [][NextLC]_vars

(* The linearisation and the quotient term at one point: the prover's      *)
(* linear combination is built from the wire evaluations and q_arith, the  *)
(* quotient term from the same wires, the selector values and pi.          *)
(* Selector values: the gate kinds, each selector alone, and none.         *)
SelectorLabels == {"q_0", "q_1", "q_2", "q_3", "q_m", "q_c"}

GateSelectors ==
    { [l \in SelectorLabels |-> g[l]] : g \in Gates }
      \cup { [l \in SelectorLabels |-> IF l = u THEN v ELSE 0] :
                u \in SelectorLabels, v \in {0, P - 1} }

(* lines 22-38 called on the wire evaluations and q_arith                  *)
GeLinearise ==
    /\ ge.pc = "linearise"
    /\ ge' = [ge EXCEPT !.pc = "evaluate",
                        !.lin = Some(construct_linear_combination(ge.w, ge.q_arith))]
    /\ UNCHANGED <<vs, ret, kg, pr, qt, lc, ss, ec, pq>>

(* lines 81-107 called on the same wires with the selector values and pi   *)
GeEvaluate ==
    /\ ge.pc = "evaluate"
    /\ ge' = [ge EXCEPT !.pc = "returned",
                        !.eval = Some(evaluate(ge.w[1], ge.w[2], ge.w[3], ge.w[4],
                                               ge.q["q_0"], ge.q["q_1"], ge.q["q_2"],
                                               ge.q["q_3"], ge.q["q_m"], ge.q["q_c"],
                                               ge.q_arith, ge.pi))]
    /\ UNCHANGED <<vs, ret, kg, pr, qt, lc, ss, ec, pq>>

InitGate ==
    /\ vs = Idle
    /\ ret = Idle
    /\ kg = Idle
    /\ pr = Idle
    /\ qt = Idle
    /\ lc = Idle
    /\ ss = Idle
    /\ ec = Idle
    /\ pq = Idle
    /\ \E w \in F \X F \X F \X F, q \in GateSelectors, qa \in F, pi \in F :
          ge = [pc |-> "linearise", w |-> w, q |-> q, q_arith |-> qa, pi |-> pi,
                lin |-> None, eval |-> None]

NextGate == GeLinearise \/ GeEvaluate

SpecGate == InitGate /\ [][NextGate]_vars

(* compute_quotient under the feature "parallel": cfg_into_iter! makes the  *)
(* range a rayon parallel iterator, whose workers take the indices in any  *)
(* order and run the closure concurrently; collect() of the indexed        *)
(* iterator places the value of index i at position i.                     *)
Workers == {1, 2}

(* The rows at the point the input varies                                  *)
ParRows ==
    { [w |-> w, g |-> g, q_arith |-> qa, pi |-> 1] :
        w \in {<<1, 2, 1, 0>>, <<2, 1, P - 1, 1>>}, g \in Gates, qa \in {0, 1} }

ParInput(size, k, r) ==
    LET q == QuotInput(size, k, r)
    IN [pc    |-> "map",
        size  |-> size,
        key   |-> q.key,
        w_4n  |-> q.w_4n,
        pi_4n |-> q.pi_4n,
        slots |-> [i \in 0 .. (size - 1) |-> None],
        at    |-> [w \in Workers |-> None],
        first |-> None,
        result |-> NoResult]

(* lines 6-7, 60: a worker takes an index no worker has taken              *)
PqTake ==
    /\ pq.pc = "map"
    /\ \E w \in Workers, i \in 0 .. (pq.size - 1) :
          /\ pq.at[w] = None
          /\ pq.slots[i] = None
          /\ \A v \in Workers : pq.at[v] # Some(i)
          /\ pq' = [pq EXCEPT !.at[w] = Some(i)]
    /\ UNCHANGED <<vs, ret, kg, pr, qt, lc, ss, ec, ge>>

(* a worker's closure returns into the first position still empty          *)
PqFinishNextFreeSlot ==
    /\ pq.pc = "map"
    /\ \E w \in Workers :
          /\ pq.at[w] # None
          /\ LET i == pq.at[w][1]
                 j == CHOOSE x \in 0 .. (pq.size - 1) :
                          /\ pq.slots[x] = None
                          /\ \A y \in 0 .. (x - 1) : pq.slots[y] # None
             IN pq' = [pq EXCEPT !.slots[j] = Some(quotient_at(pq.key, pq.w_4n, pq.pi_4n, i)),
                                 !.at[w] = None,
                                 !.first = IF @ = None THEN Some(i) ELSE @]
    /\ UNCHANGED <<vs, ret, kg, pr, qt, lc, ss, ec, ge>>

(* lines 61-76: the worker's closure returns the value of its index        *)
PqFinish ==
    /\ pq.pc = "map"
    /\ \E w \in Workers :
          /\ pq.at[w] # None
          /\ LET i == pq.at[w][1]
             IN pq' = [pq EXCEPT !.slots[i] = Some(quotient_at(pq.key, pq.w_4n, pq.pi_4n, i)),
                                 !.at[w] = None,
                                 !.first = IF @ = None THEN Some(i) ELSE @]
    /\ UNCHANGED <<vs, ret, kg, pr, qt, lc, ss, ec, ge>>

(* line 77: .collect() once every index has its value                      *)
PqGather ==
    /\ pq.pc = "map"
    /\ \A i \in 0 .. (pq.size - 1) : pq.slots[i] # None
    /\ pq' = [pq EXCEPT !.pc = "returned",
                        !.result = Ok([j \in 1 .. pq.size |-> pq.slots[j - 1][1]])]
    /\ UNCHANGED <<vs, ret, kg, pr, qt, lc, ss, ec, ge>>

InitPar ==
    /\ vs = Idle
    /\ ret = Idle
    /\ kg = Idle
    /\ pr = Idle
    /\ qt = Idle
    /\ lc = Idle
    /\ ss = Idle
    /\ ec = Idle
    /\ \E r \in ParRows : pq = ParInput(4 * DomainN, 4 * DomainN - 1, r)
    /\ ge = Idle

NextPar == PqTake \/ PqFinish \/ PqGather

SpecPar == InitPar /\ [][NextPar]_vars

(* Terminal equality check, ahp/verifier.rs lines 111-174.  The function   *)
(* and get_eval are commented out in the source; they are modelled from    *)
(* that text, which the specification names as the required terminal step. *)
(* Evaluations maps (label, point) to a field value.                       *)
Panic == [tag |-> "Panic"]

FSub(a, b) == (a + P - b) % P

(* line 120: generator(domain_n), a fixed domain element                   *)
generator == 2

(* lines 129-142: the lookups in the order the check makes them            *)
Queries(zeta) ==
    << <<"w_0", zeta>>, <<"w_1", zeta>>, <<"w_2", zeta>>, <<"w_3", zeta>>,
       <<"z", FMul(zeta, generator)>>,
       <<"sigma_1", zeta>>, <<"sigma_2", zeta>>, <<"sigma_3", zeta>>,
       <<"t", zeta>>, <<"r", zeta>> >>

(* lines 169-174: get_eval                                                 *)
get_eval(evaluations, label, point) ==
    IF <<label, point>> \in DOMAIN evaluations
    THEN Ok(evaluations[<<label, point>>])
    ELSE Err([kind |-> "MissingEvaluation", label |-> label])

(* the check with an absent evaluation read as zero                        *)
verifier_equality_check_defaults_missing(st, evaluations, v_zeta, pi_zeta, l1_zeta) ==
    IF st.alpha = None \/ st.beta = None \/ st.gamma = None \/ st.zeta = None
    THEN Panic
    ELSE LET alpha == st.alpha[1]
             beta  == st.beta[1]
             gamma == st.gamma[1]
             zeta  == st.zeta[1]
             ev(label, point) ==
                 IF <<label, point>> \in DOMAIN evaluations
                 THEN evaluations[<<label, point>>] ELSE 0
             perm == FMul(FMul(FMul(FMul(FMul(ev("z", FMul(zeta, generator)),
                         FAdd(FAdd(ev("w_3", zeta), FMul(beta, ev("sigma_3", zeta))), gamma)),
                         FAdd(FAdd(ev("w_1", zeta), FMul(beta, ev("sigma_1", zeta))), gamma)),
                         FAdd(FAdd(ev("w_2", zeta), FMul(beta, ev("sigma_2", zeta))), gamma)),
                         FAdd(ev("w_0", zeta), gamma)),
                         alpha)
             lhs == FMul(ev("t", zeta), v_zeta)
             rhs == FSub(FSub(FAdd(ev("r", zeta), pi_zeta), perm),
                         FMul(l1_zeta, FMul(alpha, alpha)))
         IN Ok(lhs = rhs)

(* lines 111-166: verifier_equality_check.  v_zeta, pi_zeta and l1_zeta    *)
(* are the values of evaluate_vanishing_poly, of the interpolated public   *)
(* input and of evaluate_first_lagrange_poly at zeta (lines 121-126, 144). *)
(* unwrap() of an unset challenge panics (lines 115-118); each get_eval    *)
(* is followed by ?, so the first absent entry decides the error.          *)
verifier_equality_check(st, evaluations, v_zeta, pi_zeta, l1_zeta) ==
    IF st.alpha = None \/ st.beta = None \/ st.gamma = None \/ st.zeta = None
    THEN Panic
    ELSE LET alpha == st.alpha[1]
             beta  == st.beta[1]
             gamma == st.gamma[1]
             zeta  == st.zeta[1]
             qs    == Queries(zeta)
             got   == [j \in 1 .. Len(qs) |-> get_eval(evaluations, qs[j][1], qs[j][2])]
             failed == {j \in 1 .. Len(qs) : got[j].tag = "Err"}
         IN IF failed # {}
            THEN got[CHOOSE j \in failed : \A k \in failed : j <= k]
            ELSE LET w_0_zeta == got[1].val
                     w_1_zeta == got[2].val
                     w_2_zeta == got[3].val
                     w_3_zeta == got[4].val
                     z_shifted_zeta == got[5].val
                     sigma_1_zeta == got[6].val
                     sigma_2_zeta == got[7].val
                     sigma_3_zeta == got[8].val
                     t_zeta == got[9].val
                     r_zeta == got[10].val
                     alpha_2 == FMul(alpha, alpha)
                     lhs == FMul(t_zeta, v_zeta)
                     rhs == FSub(FSub(FAdd(r_zeta, pi_zeta),
                                      FMul(FMul(FMul(FMul(FMul(z_shifted_zeta,
                                          FAdd(FAdd(w_3_zeta, FMul(beta, sigma_3_zeta)), gamma)),
                                          FAdd(FAdd(w_1_zeta, FMul(beta, sigma_1_zeta)), gamma)),
                                          FAdd(FAdd(w_2_zeta, FMul(beta, sigma_2_zeta)), gamma)),
                                          FAdd(w_0_zeta, gamma)),
                                          alpha)),
                                 FMul(l1_zeta, alpha_2))
                 IN Ok(lhs = rhs)

(* A proof's evaluation set: every required entry, with t, r and the       *)
(* shifted z as given and the others fixed                                 *)
FullEvaluations(zeta, t, r, z) ==
    LET qs == Queries(zeta)
        value(j) == CASE j = 5 -> z
                      [] j = 9 -> t
                      [] j = 10 -> r
                      [] OTHER -> (j % (P - 1)) + 1
    IN [k \in {qs[j] : j \in 1 .. Len(qs)} |->
            value(CHOOSE j \in 1 .. Len(qs) : qs[j] = k)]

(* the set without the entries numbered in drop; with unshifted, an entry  *)
(* for z at zeta itself is present                                         *)
Evaluations(zeta, t, r, z, drop, unshifted) ==
    LET qs   == Queries(zeta)
        full == FullEvaluations(zeta, t, r, z)
        keys == {qs[j] : j \in (1 .. Len(qs)) \ drop}
                  \cup (IF unshifted THEN {<<"z", zeta>>} ELSE {})
    IN [k \in keys |-> IF k \in DOMAIN full THEN full[k] ELSE z]

CheckState(st, evaluations, v, pi, l1) ==
    [pc |-> "call", st |-> st, evaluations |-> evaluations,
     v_zeta |-> v, pi_zeta |-> pi, l1_zeta |-> l1, result |-> NoResult]

Drops == {d \in SUBSET (1 .. 10) : Cardinality(d) \in {1, 2}}

EcCheck ==
    /\ ec.pc = "call"
    /\ ec' = [ec EXCEPT !.pc = "returned",
                        !.result = verifier_equality_check(ec.st, ec.evaluations, ec.v_zeta,
                                                           ec.pi_zeta, ec.l1_zeta)]
    /\ UNCHANGED <<vs, ret, kg, pr, qt, lc, ss, pq, ge>>

InitCheck ==
    /\ vs = Idle
    /\ ret = Idle
    /\ kg = Idle
    /\ pr = Idle
    /\ qt = Idle
    /\ lc = Idle
    /\ ss = Idle
    /\ pq = Idle
    /\ ge = Idle
    /\ \E info \in Infos :
          \/ \E alpha \in F, beta \in {1, P - 1}, t \in F, r \in F, z \in F,
                v \in F, pi \in F, l1 \in F :
                ec = CheckState([info |-> info, alpha |-> Some(alpha), beta |-> Some(beta),
                                 gamma |-> Some(1), zeta |-> Some(1)],
                                Evaluations(1, t, r, z, {}, FALSE), v, pi, l1)
          \/ \E zeta \in {1, 2}, t \in {0, 1}, r \in {0, 1}, drop \in Drops,
                unshifted \in BOOLEAN :
                ec = CheckState([info |-> info, alpha |-> Some(1), beta |-> Some(1),
                                 gamma |-> Some(1), zeta |-> Some(zeta)],
                                Evaluations(zeta, t, r, 1, drop, unshifted), 1, 1, 1)
          \/ \E a \in {None, Some(1)}, b \in {None, Some(1)}, g \in {None, Some(1)},
                z \in {None, Some(1)}, drop \in {{}, {1}} :
                ec = CheckState([info |-> info, alpha |-> a, beta |-> b,
                                 gamma |-> g, zeta |-> z],
                                Evaluations(1, 1, 1, 1, drop, FALSE), 1, 1, 1)

NextCheck == EcCheck

SpecCheck == InitCheck /\ [][NextCheck]_vars

InitPlonk ==
    /\ vs = Idle
    /\ ret = Idle
    /\ \E d \in 0 .. MaxDegree :
          kg = [pc |-> "generate", srs |-> [max_degree |-> d], keys |-> None,
                ck |-> None, steps |-> << >>, result |-> NoResult]
    /\ pr = Idle
    /\ qt = Idle
    /\ lc = Idle
    /\ ss = Idle
    /\ ec = Idle
    /\ pq = Idle
    /\ ge = Idle

Init ==
    /\ \E info \in Infos :
          /\ vs = verifier_init(info).vs
          /\ ret = [fn |-> "verifier_init", args |-> << >>,
                 ok |-> verifier_init(info).ok, msg |-> None]
    /\ kg = Idle
    /\ pr = Idle
    /\ qt = Idle
    /\ lc = Idle
    /\ ss = Idle
    /\ ec = Idle
    /\ pq = Idle
    /\ ge = Idle

Next == FirstRound \/ SecondRound \/ ThirdRound

Spec == Init /\ [][Next]_vars

NextPlonk ==
    \/ KgGenerate \/ KgCheck \/ KgTrim \/ KgCommit \/ KgReturn
    \/ PrProverInit \/ PrVerifierInit \/ PrFromSeed
    \/ PrProverRound \/ PrCommit
    \/ PrAbsorbFirst \/ PrAbsorbSecond \/ PrAbsorbThird
    \/ PrVerifierRound \/ PrReturn

SpecPlonk == InitPlonk /\ [][NextPlonk]_vars

NextRerun ==
    \/ KgGenerate \/ KgCheck \/ KgTrim \/ KgCommit \/ KgReturn
    \/ PrProverInit \/ PrVerifierInit \/ PrFromSeed
    \/ PrProverRound \/ PrCommit
    \/ PrAbsorbFirst \/ PrAbsorbSecond \/ PrAbsorbThird
    \/ PrVerifierRound \/ PrReturn \/ PrRerun

SpecRerun == InitPlonk /\ [][NextRerun]_vars

----------------------------------------------------------------------------
(* Properties                                                              *)

Fields == {"alpha", "beta", "gamma", "zeta"}

(* C1: a round function called out of order is rejected:                   *)
(* verifier_second_round on a state whose beta or gamma is None, and       *)
(* verifier_third_round on a state whose alpha is None, return an error.   *)
C1_OutOfOrderRejected ==
    [][ /\ (ret'.fn = "verifier_second_round" /\ (vs.beta = None \/ vs.gamma = None))
              => ~ret'.ok
        /\ (ret'.fn = "verifier_third_round" /\ vs.alpha = None)
              => ~ret'.ok ]_vars

(* C2: every challenge field goes None -> Some exactly once: a round       *)
(* function called on a state where its field is already Some is rejected, *)
(* and a field that is Some(v) is never overwritten or reset.              *)
C2_SetOnce ==
    [][ /\ \A f \in Fields : IsSome(vs[f]) => vs'[f] = vs[f]
        /\ (ret'.fn = "verifier_first_round" /\ (IsSome(vs.beta) \/ IsSome(vs.gamma)))
              => ~ret'.ok
        /\ (ret'.fn = "verifier_second_round" /\ IsSome(vs.alpha)) => ~ret'.ok
        /\ (ret'.fn = "verifier_third_round" /\ IsSome(vs.zeta)) => ~ret'.ok ]_vars

(* C3: in every state reached through calls that returned Ok, zeta is Some *)
(* only if alpha is, alpha is Some only if beta and gamma are, and beta is *)
(* Some exactly when gamma is.                                             *)
C3_RoundOrder ==
    ret.ok =>
        /\ IsSome(vs.zeta) => IsSome(vs.alpha)
        /\ IsSome(vs.alpha) => (IsSome(vs.beta) /\ IsSome(vs.gamma))
        /\ IsSome(vs.beta) <=> IsSome(vs.gamma)

(* C4: in prove, what is absorbed into the transcript immediately before   *)
(* the challenge of round k is derived is the commitments of round k.      *)
C4_AbsorbRoundCommitments ==
    pr.pc # "idle" =>
        \A j \in 1 .. Len(pr.fs_rng) :
            pr.fs_rng[j].op = "squeeze" =>
                /\ j > 1
                /\ pr.fs_rng[j - 1] =
                       [op |-> "absorb",
                        data |-> to_bytes(pr.comms[pr.fs_rng[j].data.bytes_of])]

AllSucceeded(st) == \A j \in 1 .. Len(st.steps) : st.steps[j][2]

(* C5: prove returns a Proof whenever every step succeeded, and an error   *)
(* only when one of the steps failed.                                      *)
C5_ProofWhenAllSucceed ==
    pr.pc = "returned" => (pr.result.tag = "Ok" <=> AllSucceeded(pr))

(* The error prove returns when the given step fails                       *)
ErrorOf(step) ==
    IF step \in {<<"commit", 1>>, <<"commit", 2>>, <<"commit", 3>>}
    THEN [kind |-> "PCError", pc_err |-> step]
    ELSE [kind |-> "AHP", at |-> step]

(* C6: prove has no recovery path: when a step fails, it is the last step  *)
(* run, prove has returned that step's error, and from then on nothing     *)
(* changes: nothing is absorbed, no challenge derived, nothing committed.  *)
C6_NoRecovery ==
    /\ [](pr.pc # "idle" =>
            \A j \in 1 .. Len(pr.steps) :
                ~pr.steps[j][2] =>
                    /\ j = Len(pr.steps)
                    /\ pr.pc = "returned"
                    /\ pr.result = Err(ErrorOf(pr.steps[j][1])))
    /\ [][(pr.pc # "idle" /\ ~AllSucceeded(pr)) => pr' = pr]_vars

(* A commit failed in round 2, after round 1 went through                  *)
C6_Witness ==
    /\ pr.pc = "returned"
    /\ Len(pr.steps) > 0
    /\ pr.steps[Len(pr.steps)] = << <<"commit", 2>>, FALSE >>
    /\ Len(pr.msgs) = 1

(* C7: keygen returns CircuitTooLarge exactly when the SRS maximum degree  *)
(* is smaller than the size of the generated keys; then neither PC::trim   *)
(* nor PC::commit was called and no key was produced.                      *)
C7_CircuitTooLarge ==
    kg.pc = "returned" =>
        /\ kg.result = Err([kind |-> "CircuitTooLarge"])
              <=> (IsSome(kg.keys) /\ kg.srs.max_degree < kg.keys[1].size)
        /\ kg.result = Err([kind |-> "CircuitTooLarge"]) =>
              /\ \A j \in 1 .. Len(kg.steps) : kg.steps[j][1] \notin {"trim", "commit"}
              /\ kg.ck = None
              /\ pr = Idle

(* keygen returned CircuitTooLarge for an SRS one degree too small         *)
C7_Witness ==
    /\ kg.pc = "returned"
    /\ kg.result = Err([kind |-> "CircuitTooLarge"])
    /\ kg.keys[1].size = kg.srs.max_degree + 1

(* C8: wherever the q_arith evaluation on the 4n domain is zero, the       *)
(* element of compute_quotient's output is zero, whatever the wires, the   *)
(* other selectors and the public input are there.                         *)
C8_QuotientZeroOnDisabledGates ==
    qt.pc = "returned" =>
        \A i \in 0 .. (qt.size - 1) :
            qt.key.q_arith[3][i] = 0 => qt.result.val[i + 1] = 0

(* compute_quotient returned for a disabled gate whose wires, selectors    *)
(* and public input are all non-zero                                       *)
C8_Witness ==
    /\ qt.pc = "returned"
    /\ \E i \in 0 .. (qt.size - 1) :
          /\ qt.key.q_arith[3][i] = 0
          /\ qt.pi_4n[i] # 0
          /\ qt.key.q_c[3][i] # 0
          /\ qt.key.q_m[3][i] # 0
          /\ \A j \in 1 .. 4 : qt.w_4n[j][i] # 0

(* The arithmetic gate identity at point i, from the 4n evaluations        *)
GateIdentity(st, i) ==
    ( ( st.key.q_0[3][i] * st.w_4n[1][i]
      + st.key.q_1[3][i] * st.w_4n[2][i]
      + st.key.q_2[3][i] * st.w_4n[3][i]
      + st.key.q_3[3][i] * st.w_4n[4][i]
      + st.key.q_m[3][i] * st.w_4n[2][i] * st.w_4n[3][i]
      + st.key.q_c[3][i]
      + st.pi_4n[i] ) * st.key.q_arith[3][i] ) % P

(* C9: compute_quotient returns domain_4n.size() elements, and element i,  *)
(* where q_arith[i] # 0, is (q_0 w_0 + q_1 w_1 + q_2 w_2 + q_3 w_3 +       *)
(* q_m w_1 w_2 + q_c + pi) * q_arith taken at index i of the 4n tables.    *)
C9_QuotientGateIdentity ==
    qt.pc = "returned" =>
        /\ Len(qt.result.val) = qt.size
        /\ \A i \in 0 .. (qt.size - 1) :
              qt.key.q_arith[3][i] # 0 => qt.result.val[i + 1] = GateIdentity(qt, i)

(* compute_quotient returned a non-zero element for an enabled gate at a   *)
(* point other than the first                                              *)
C9_Witness ==
    /\ qt.pc = "returned"
    /\ \E i \in 1 .. (qt.size - 1) :
          /\ qt.key.q_arith[3][i] # 0
          /\ qt.key.q_m[3][i] # 0
          /\ qt.result.val[i + 1] # 0

(* The coefficient a linear combination gives to a label, and the labels   *)
Coefficient(l, label) ==
    LET js == {j \in 1 .. Len(l.terms) : l.terms[j][2] = label}
    IN l.terms[CHOOSE j \in js : TRUE][1]

Labels(l) == {l.terms[j][2] : j \in 1 .. Len(l.terms)}

(* The value of a linear combination when each label takes a value         *)
Substitute(l, q) ==
    LET RECURSIVE sum(_)
        sum(k) == IF k = 0 THEN 0
                  ELSE (sum(k - 1) + l.terms[k][1] * q[l.terms[k][2]]) % P
    IN sum(Len(l.terms))

(* C10: construct_linear_combination returns the combination labelled      *)
(* "arithmetic" with six terms over six distinct labels, q_0..q_3 weighted *)
(* by q_arith w_0..w_3, q_m by q_arith w_1 w_2 and q_c by q_arith: it is   *)
(* q_arith (q_0 w_0 + q_1 w_1 + q_2 w_2 + q_3 w_3 + q_m w_1 w_2 + q_c).    *)
C10_LinearCombination ==
    lc.pc = "returned" =>
        LET l  == lc.result.val
            w  == lc.w_evals
            qa == lc.q_arith_eval
        IN /\ l.label = "arithmetic"
           /\ Len(l.terms) = 6
           /\ Labels(l) = {"q_0", "q_1", "q_2", "q_3", "q_m", "q_c"}
           /\ Coefficient(l, "q_0") = (qa * w[1]) % P
           /\ Coefficient(l, "q_1") = (qa * w[2]) % P
           /\ Coefficient(l, "q_2") = (qa * w[3]) % P
           /\ Coefficient(l, "q_3") = (qa * w[4]) % P
           /\ Coefficient(l, "q_m") = (qa * w[2] * w[3]) % P
           /\ Coefficient(l, "q_c") = qa
           /\ \A q \in [{"q_0", "q_1", "q_2", "q_3", "q_m", "q_c"} -> F] :
                 Substitute(l, q) =
                     (qa * ( q["q_0"] * w[1] + q["q_1"] * w[2] + q["q_2"] * w[3]
                           + q["q_3"] * w[4] + q["q_m"] * w[2] * w[3] + q["q_c"] )) % P

(* construct_linear_combination returned for non-zero q_arith(zeta) and    *)
(* wire evaluations w_0 # w_2, w_1 and w_2 non-zero                        *)
C10_Witness ==
    /\ lc.pc = "returned"
    /\ lc.q_arith_eval # 0
    /\ lc.w_evals[1] # lc.w_evals[3]
    /\ lc.w_evals[2] # 0
    /\ lc.w_evals[3] # 0

(* The value the calls of a log leave in a field: the argument of the last *)
(* call that sets the field, None when no call does                        *)
LastSet(log, fn, k) ==
    LET js == {j \in 1 .. Len(log) : log[j].fn = fn}
    IN IF js = {} THEN None
       ELSE Some(log[CHOOSE j \in js : \A h \in js : h <= j].args[k])

(* C11: verifier_init never fails and returns alpha, beta, gamma and zeta  *)
(* all None; with two sessions over one IndexInfo and any interleaving of  *)
(* round calls, the fields of a session are those set by the calls made on *)
(* that session, and the IndexInfo is never modified.                      *)
C11_SessionsIndependent ==
    /\ [](ss.pc # "idle" =>
            \A i \in Sessions :
                /\ ss.init_ok[i] \in {<< >>, << TRUE >>}
                /\ ss.init_ok[i] = << TRUE >> =>
                      /\ ss.s[i] # << >>
                      /\ ss.s[i][1].info = ss.info
                      /\ ss.s[i][1].beta = LastSet(ss.log[i], "verifier_first_round", 1)
                      /\ ss.s[i][1].gamma = LastSet(ss.log[i], "verifier_first_round", 2)
                      /\ ss.s[i][1].alpha = LastSet(ss.log[i], "verifier_second_round", 1)
                      /\ ss.s[i][1].zeta = LastSet(ss.log[i], "verifier_third_round", 1))
    /\ [][ss.pc # "idle" => ss'.info = ss.info]_vars

(* Both sessions exist, session 1 has had alpha set and session 2 has not, *)
(* and a call was made on session 2 after the one on session 1             *)
C11_Witness ==
    /\ ss.pc # "idle"
    /\ ss.s[1] # << >> /\ ss.s[2] # << >>
    /\ IsSome(ss.s[1][1].alpha)
    /\ ss.s[2][1].alpha = None
    /\ IsSome(ss.s[2][1].beta)
    /\ ss.s[1][1].beta = None

IsPrefix(a, b) == Len(a) <= Len(b) /\ a = SubSeq(b, 1, Len(a))

Positions(seq, Test(_)) == {j \in 1 .. Len(seq) : Test(seq[j])}

IsSeedOp(o) == o.op = "seed"

IsSeedStep(e) == e[1][1] = "from_seed"

UsesTranscript(e) == e[1][1] \in {"absorb", "verifier_round"}

(* C13: in prove the transcript is created once per session, before any    *)
(* absorb or challenge derivation, and its seed is the protocol name       *)
(* "PLONK" followed by the serialized public input and nothing else.       *)
C13_SeedOnce ==
    pr.pc # "idle" =>
        /\ Cardinality(Positions(pr.steps, IsSeedStep)) <= 1
        /\ Len(pr.steps) >= 3 => Cardinality(Positions(pr.steps, IsSeedStep)) = 1
        /\ \A j \in Positions(pr.steps, UsesTranscript) :
              \E h \in Positions(pr.steps, IsSeedStep) : h < j
        /\ Positions(pr.fs_rng, IsSeedOp) \subseteq {1}
        /\ pr.fs_rng # << >> =>
              pr.fs_rng[1] = [op |-> "seed", data |-> [bytes_of |-> <<"PLONK", pr.pi>>]]
        /\ Positions(pr.steps, IsSeedStep) = {} => pr.fs_rng = << >>

(* The transcript was seeded and has absorbed the first commitments, in a  *)
(* session whose zk randomness differs from its public input               *)
C13_Witness ==
    /\ pr.pc = "verifier_round"
    /\ pr.round = 1
    /\ Len(pr.fs_rng) = 2
    /\ pr.zk # pr.pi

(* The order of the steps of prove                                         *)
StepOrder ==
    << <<"prover_init", 0>>, <<"verifier_init", 0>>, <<"from_seed", 0>>,
       <<"prover_round", 1>>, <<"commit", 1>>, <<"absorb", 1>>, <<"verifier_round", 1>>,
       <<"prover_round", 2>>, <<"commit", 2>>, <<"absorb", 2>>, <<"verifier_round", 2>>,
       <<"prover_round", 3>>, <<"commit", 3>>, <<"absorb", 3>>, <<"verifier_round", 3>> >>

(* C18: prove runs its steps in one fixed order: for each round the prover *)
(* round, the commit, the absorb, the verifier round; prover round 2       *)
(* consumes the verifier's first message and prover round 3 the second,    *)
(* each after that message exists.                                         *)
C18_FixedOrder ==
    pr.pc # "idle" =>
        /\ Len(pr.steps) <= Len(StepOrder)
        /\ \A j \in 1 .. Len(pr.steps) : pr.steps[j][1] = StepOrder[j]
        /\ \A k \in 1 .. Len(pr.msgs) : pr.msgs[k].round = k
        /\ \A k \in 1 .. Len(pr.oracles) :
              /\ pr.oracles[k].round = k
              /\ k > 1 => (Len(pr.msgs) >= k - 1 /\ pr.oracles[k].input = << pr.msgs[k - 1] >>)
              /\ k = 1 => pr.oracles[k].input = << >>

(* All three rounds have run                                               *)
C18_Witness ==
    /\ pr.pc = "final"
    /\ Len(pr.steps) = 15
    /\ Len(pr.oracles) = 3
    /\ Len(pr.msgs) = 3

(* C16: verifier_first_round is a pure relabeling: for all beta and gamma  *)
(* it returns the state with beta = Some(beta) and gamma = Some(gamma) and *)
(* FirstMsg{beta, gamma} with the same two values, not swapped, and leaves *)
(* info, alpha and zeta as they were.                                      *)
C16_FirstRoundRelabels ==
    [][ret'.fn = "verifier_first_round" =>
          /\ ret'.ok
          /\ vs'.beta = << ret'.args[1] >>
          /\ vs'.gamma = << ret'.args[2] >>
          /\ ret'.msg = [beta |-> ret'.args[1], gamma |-> ret'.args[2]]
          /\ vs'.info = vs.info
          /\ vs'.alpha = vs.alpha
          /\ vs'.zeta = vs.zeta]_vars

(* verifier_first_round returned for beta # gamma on a state whose alpha   *)
(* and zeta were set                                                       *)
C16_Witness ==
    /\ ret.fn = "verifier_first_round"
    /\ ret.args[1] # ret.args[2]
    /\ IsSome(vs.alpha)
    /\ IsSome(vs.zeta)

(* C17: verifier_second_round changes alpha only, to Some(alpha_new) which *)
(* SecondMsg carries too; verifier_third_round changes zeta only, to       *)
(* Some(zeta_new) which ThirdMsg carries too.                              *)
C17_LaterRoundsFrame ==
    [][ /\ ret'.fn = "verifier_second_round" =>
              /\ ret'.ok
              /\ vs'.alpha = << ret'.args[1] >>
              /\ ret'.msg = [alpha |-> ret'.args[1]]
              /\ vs'.info = vs.info
              /\ vs'.beta = vs.beta
              /\ vs'.gamma = vs.gamma
              /\ vs'.zeta = vs.zeta
        /\ ret'.fn = "verifier_third_round" =>
              /\ ret'.ok
              /\ vs'.zeta = << ret'.args[1] >>
              /\ ret'.msg = [zeta |-> ret'.args[1]]
              /\ vs'.info = vs.info
              /\ vs'.alpha = vs.alpha
              /\ vs'.beta = vs.beta
              /\ vs'.gamma = vs.gamma ]_vars

(* verifier_third_round returned on a state whose other three fields are   *)
(* set, with a zeta different from alpha                                   *)
C17_Witness ==
    /\ ret.fn = "verifier_third_round"
    /\ IsSome(vs.alpha)
    /\ IsSome(vs.beta)
    /\ IsSome(vs.gamma)
    /\ vs.alpha # vs.zeta

(* C20: for all wires, selector values, q_arith and pi, substituting the   *)
(* selector values for the labels of construct_linear_combination(w,       *)
(* q_arith) and adding pi * q_arith gives the value of evaluate on the     *)
(* same values; for q_arith = 0 both are zero.                             *)
C20_LinearisationAgreesWithEvaluate ==
    ge.pc = "returned" =>
        LET linearised == FAdd(Substitute(ge.lin[1], ge.q), FMul(ge.pi, ge.q_arith))
        IN /\ linearised = ge.eval[1]
           /\ ge.q_arith = 0 => (linearised = 0 /\ ge.eval[1] = 0)

(* both were computed for an enabled gate with every selector, every wire  *)
(* and the public input non-zero, and the common value is non-zero         *)
C20_Witness ==
    /\ ge.pc = "returned"
    /\ ge.q_arith # 0
    /\ ge.pi # 0
    /\ \A l \in SelectorLabels : ge.q[l] # 0
    /\ \A j \in 1 .. 4 : ge.w[j] # 0
    /\ ge.eval[1] # 0
    /\ Substitute(ge.lin[1], ge.q) # ge.eval[1]

(* The result of the sequential map over 0..size: element i is the         *)
(* closure's value at index i                                              *)
Sequential(st) ==
    [j \in 1 .. st.size |-> quotient_at(st.key, st.w_4n, st.pi_4n, j - 1)]

(* C19: whatever the order and interleaving in which the workers take and  *)
(* finish the indices, compute_quotient returns the result of the          *)
(* sequential map; no step changes the key, the wire tables or the public  *)
(* input table, and a finishing worker writes the slot of its own index    *)
(* and no other.                                                           *)
C19_ParallelEqualsSequential ==
    /\ [](pq.pc = "returned" => pq.result = Ok(Sequential(pq)))
    /\ [][pq.pc # "idle" =>
            /\ pq'.key = pq.key /\ pq'.w_4n = pq.w_4n /\ pq'.pi_4n = pq.pi_4n
            /\ \A i \in 0 .. (pq.size - 1) :
                  pq'.slots[i] # pq.slots[i] =>
                      /\ pq.slots[i] = None
                      /\ \E w \in Workers : pq.at[w] = Some(i) /\ pq'.at[w] = None
                      /\ \A j \in 0 .. (pq.size - 1) :
                            j # i => pq'.slots[j] = pq.slots[j]]_vars

(* compute_quotient returned after the last index finished first, and the  *)
(* elements of the result differ                                           *)
C19_Witness ==
    /\ pq.pc = "returned"
    /\ pq.first = Some(pq.size - 1)
    /\ pq.result.val[1] # pq.result.val[pq.size]
    /\ pq.result.val[1] # pq.result.val[2]

(* The entries the terminal check requires, and its identity               *)
Required(zeta) ==
    {<<l, zeta>> : l \in {"w_0", "w_1", "w_2", "w_3", "sigma_1", "sigma_2", "sigma_3", "t", "r"}}
      \cup {<<"z", (zeta * generator) % P>>}

IdentityHolds(st) ==
    LET e(l) == st.evaluations[<<l, st.st.zeta[1]>>]
        z_sh == st.evaluations[<<"z", (st.st.zeta[1] * generator) % P>>]
        alpha == st.st.alpha[1]
        beta  == st.st.beta[1]
        gamma == st.st.gamma[1]
        perm == z_sh * (e("w_3") + beta * e("sigma_3") + gamma)
                     * (e("w_1") + beta * e("sigma_1") + gamma)
                     * (e("w_2") + beta * e("sigma_2") + gamma)
                     * (e("w_0") + gamma) * alpha
    IN (e("t") * st.v_zeta) % P
         = (e("r") + st.pi_zeta - perm - st.l1_zeta * alpha * alpha) % P

====
